---- MODULE Spec2Model ----
(***************************************************************************)
(* A model of bungiesearch's field descriptors (fields.py) and model index *)
(* descriptors (indices.py).                                               *)
(*                                                                         *)
(* Python values are tokens (strings).  A Python dict whose iteration      *)
(* order or size matters (an instance __dict__, keyword arguments) is a    *)
(* sequence of <<key, value>> pairs in insertion order.                    *)
(*                                                                         *)
(* An operator that uses an argument many times, and every loop written    *)
(* as a recursive operator, binds its arguments through one-element sets   *)
(* (x \in {x0}): the argument is then evaluated once per call.             *)
(***************************************************************************)
EXTENDS Integers, Sequences, FiniteSets, TLC

VARIABLES
    ctor,       \* the last field-descriptor constructor call and its outcome
    heap,       \* field id -> field descriptor object of the index class
    index,      \* the index descriptor (ModelIndex subclass and its instance)
    threads,    \* thread id -> the call the thread is executing
    cmd,        \* the run of the search_index management command
    nested      \* a nested field, the record it is applied to and the result

vars == <<ctor, heap, index, threads, cmd, nested>>

None == "None"

(***************************************************************************)
(* Bounds.                                                                 *)
(***************************************************************************)
\* the largest number of keyword arguments of one constructor call
MaxArgs == 3

\* the largest number of fields declared in the body of an index class
MaxClassAttrs == 2

\* the largest number of child fields of a nested field
MaxChildren == 2

\* the largest number of items of the source value of a nested field
MaxItems == 2

(***************************************************************************)
(* Python dict, as far as the code uses it.                                *)
(***************************************************************************)
DictKeys(d0) == UNION {{d[i][1] : i \in 1..Len(d)} : d \in {d0}}

DictHas(d0, k) == \E d \in {d0} : \E i \in 1..Len(d) : d[i][1] = k

DictGet(d0, k) ==
    CHOOSE out \in {d[CHOOSE i \in 1..Len(d) : d[i][1] = k][2] : d \in {d0}} : TRUE

\* d.get(k, default) / d.pop(k, default)'s value
DictGetOr(d0, k, default) ==
    CHOOSE out \in {(IF DictHas(d, k) THEN DictGet(d, k) ELSE default) : d \in {d0}} : TRUE

\* d[k] = v: an existing key keeps its position, a new key goes last
DictSet(d0, k, v0) ==
    CHOOSE out \in {(
        IF DictHas(d, k)
        THEN [i \in 1..Len(d) |-> IF d[i][1] = k THEN <<k, v>> ELSE d[i]]
        ELSE Append(d, <<k, v>>)
        ) : d \in {d0}, v \in {v0}} : TRUE

\* what d.pop(k, default) leaves in d
DictDel(d, k) == SelectSeq(d, LAMBDA p : p[1] # k)

(***************************************************************************)
(* Class attributes of AbstractField and its concrete subclasses.          *)
(***************************************************************************)
FieldClasses ==
    {"TextField", "KeywordField", "NumberField", "DateField", "BooleanField",
     "NestedField"}

meta_fields == {"_index", "_uid", "_type", "_id"}

common_fields ==
    {"index_name", "store", "index", "boost", "null_value", "copy_to", "type",
     "fields"}

_system_fields ==
    {"base_field", "base_field_class", "eval_func", "model_attr",
     "template_name"}

\* the `fields` class attribute (the allowed options) of the five classes that
\* declare one; NestedField inherits the `fields` property instead
ClassFields(cls) ==
    CASE cls = "TextField" ->
           {"analyzer", "boost", "eager_global_ordinals", "fielddata",
            "fielddata_frequency_filter", "fields", "index", "index_options",
            "norms", "position_increment_gap", "store", "search_analyzer",
            "search_quote_analyzer", "similarity", "term_vector"}
      [] cls = "KeywordField" ->
           {"boost", "doc_values", "eager_global_ordinals", "fields",
            "ignore_above", "index", "index_options", "norms", "null_value",
            "store", "similarity", "normalizer"}
      [] cls = "NumberField" ->
           {"doc_values", "precision_step", "include_in_all",
            "ignore_malformed", "coerce"}
      [] cls = "DateField" ->
           {"format", "doc_values", "precision_step", "include_in_all",
            "ignore_malformed"}
      [] cls = "BooleanField" -> {}
      [] OTHER -> {}

\* NumberField.coretype, the one coretype that is a list
NumberCoretypes == {"float", "double", "byte", "short", "integer", "long"}

\* NumberField._base_fields_map.get(type)
_base_fields_map(type) ==
    CASE type = "float" -> "Float"
      [] type = "double" -> "Double"
      [] type = "byte" -> "Byte"
      [] type = "short" -> "Short"
      [] type = "integer" -> "Integer"
      [] type = "long" -> "Long"
      [] OTHER -> None

\* the `defaults` attribute: TextField's class dict, else the property's {}
ClassDefaults(cls) ==
    IF cls = "TextField" THEN << <<"analyzer", "snowball">> >> ELSE <<>>

\* names that are properties without a setter on the class: setattr on them
\* raises AttributeError.  TextField .. BooleanField replace `coretype` and
\* `fields` (TextField also `defaults`) by plain class attributes.
ReadOnlyProperties(cls) ==
    CASE cls = "NestedField" -> {"fields", "coretype", "defaults"}
      [] cls = "TextField" -> {}
      [] OTHER -> {"defaults"}

(***************************************************************************)
(* A field descriptor object: its class and its instance __dict__.         *)
(***************************************************************************)
NoObj == [cls |-> None, dict |-> <<>>]

\* `self.base_field_class`: a class attribute, or for NumberField the
\* cached_property over get_base_field_class (read from __dict__ when cached)
BaseFieldClass(self) ==
    CASE self.cls = "TextField" -> "Text"
      [] self.cls = "KeywordField" -> "Keyword"
      [] self.cls = "DateField" -> "Date"
      [] self.cls = "BooleanField" -> "Boolean"
      [] self.cls = "NestedField" -> "Nested"
      [] self.cls = "NumberField" ->
           IF DictHas(self.dict, "base_field_class")
           THEN DictGet(self.dict, "base_field_class")
           ELSE _base_fields_map(DictGetOr(self.dict, "type", None))
      [] OTHER -> None

\* the object after an access of `self.base_field_class`: the cached_property
\* stores its result in the instance __dict__ on first access
TouchBaseFieldClass(self) ==
    IF self.cls = "NumberField" /\ ~DictHas(self.dict, "base_field_class")
    THEN [self EXCEPT !.dict = DictSet(@, "base_field_class", BaseFieldClass(self))]
    ELSE self

\* `self.coretype`
Coretype(self) ==
    CASE self.cls = "TextField" -> "text"
      [] self.cls = "KeywordField" -> "keyword"
      [] self.cls = "DateField" -> "date"
      [] self.cls = "BooleanField" -> "boolean"
      [] self.cls = "NestedField" -> "nested"
      [] OTHER -> "list"

CoretypeIsList(self) == self.cls = "NumberField"

\* the keys of a container token passed as the value of an option
ContainerKeys(v) ==
    CASE v = "{}" -> {}
      [] v = "{'raw': Keyword()}" -> {"raw"}
      [] OTHER -> {}

\* an instance attribute `fields` (set by an earlier `fields=` option) hides
\* the class attribute
HasOwnFields(self) == DictHas(self.dict, "fields")

\* `self.fields is None`
FieldsIsNone(self) ==
    IF HasOwnFields(self) THEN DictGet(self.dict, "fields") = None
    ELSE self.cls = "NestedField"

\* `attr in self.fields`
InFields(self, attr) ==
    IF HasOwnFields(self) THEN attr \in ContainerKeys(DictGet(self.dict, "fields"))
    ELSE attr \in ClassFields(self.cls)

\* the mutant of OptionRejected that checks every class, NestedField too
OptionRejectedNoExemption(self, attr) ==
    /\ ~(attr \in ClassFields(self.cls))
    /\ attr \notin common_fields

\* the condition of the KeyError of the option loop
OptionRejected(self, attr) ==
    /\ (BaseFieldClass(self) = None \/ ~FieldsIsNone(self))
    /\ ~InFields(self, attr)
    /\ attr \notin common_fields

RECURSIVE InitArgs(_, _)
\* for attr, value in iteritems(args): check, then setattr
InitArgs(self0, rest0) ==
    CHOOSE out \in {(
        IF rest = <<>> THEN [exc |-> None, self |-> self]
        ELSE LET attr == Head(rest)[1]
                 value == Head(rest)[2]
                 s1 == TouchBaseFieldClass(self)
             IN  IF OptionRejected(s1, attr)
                 THEN [exc |-> "KeyError", self |-> NoObj]
                 ELSE IF attr \in ReadOnlyProperties(self.cls)
                 THEN [exc |-> "AttributeError", self |-> NoObj]
                 ELSE InitArgs([s1 EXCEPT !.dict = DictSet(@, attr, value)], Tail(rest))
        ) : self \in {self0}, rest \in {rest0}} : TRUE

RECURSIVE InitDefaults(_, _)
\* for attr, value in iteritems(self.defaults): set what is not yet there
InitDefaults(self0, rest0) ==
    CHOOSE out \in {(
        IF rest = <<>> THEN self
        ELSE InitDefaults(
                IF DictHas(self.dict, Head(rest)[1]) THEN self
                ELSE [self EXCEPT !.dict = DictSet(@, Head(rest)[1], Head(rest)[2])],
                Tail(rest))
        ) : self \in {self0}, rest \in {rest0}} : TRUE

\* the mutant of CoretypeCheck that takes any coretype given
CoretypeCheckAnyGiven(self, args) ==
    IF CoretypeIsList(self)
    THEN IF ~DictHas(args, "coretype") THEN "KeyError" ELSE None
    ELSE None

\* the two KeyErrors of the coretype selection
CoretypeCheck(self, args) ==
    IF CoretypeIsList(self)
    THEN IF ~DictHas(args, "coretype") THEN "KeyError"
         ELSE IF DictGet(args, "coretype") \notin NumberCoretypes THEN "KeyError"
         ELSE None
    ELSE None

\* the body of AbstractField.__init__(self, **args): the exception raised
\* (None if none) and the object constructed
InitBody(cls, args) ==
    LET d0 == << <<"model_attr", DictGetOr(args, "model_attr", None)>>,
                 <<"eval_func", DictGetOr(args, "eval_as", None)>>,
                 <<"template_name", DictGetOr(args, "template", None)>> >>
        a0 == DictDel(DictDel(DictDel(args, "model_attr"), "eval_as"), "template")
        s0 == [cls |-> cls, dict |-> d0]
        type == IF CoretypeIsList(s0) THEN DictGetOr(a0, "coretype", None)
                ELSE Coretype(s0)
        a1 == IF CoretypeIsList(s0) THEN DictDel(a0, "coretype") ELSE a0
        s1 == [s0 EXCEPT !.dict = DictSet(@, "type", type)]
        r == InitArgs(s1, a1)
    IN  IF CoretypeCheck(s0, a0) # None
        THEN [exc |-> CoretypeCheck(s0, a0), self |-> NoObj]
        ELSE IF r.exc # None THEN r
        ELSE [exc |-> None, self |-> InitDefaults(r.self, ClassDefaults(cls))]

\* the mutant of AbstractField_init that demands exactly one strategy
AbstractField_init_OneStrategy(cls, args) ==
    IF Cardinality({k \in {"model_attr", "eval_as", "template"} : DictHas(args, k)}) # 1
    THEN [exc |-> "KeyError", self |-> NoObj]
    ELSE InitBody(cls, args)

\* AbstractField.__init__(self, **args), which every concrete class inherits
AbstractField_init(cls, args) == InitBody(cls, args)

(***************************************************************************)
(* django_field_to_index                                                   *)
(***************************************************************************)
DjangoTypes ==
    {"DateField", "DateTimeField", "BooleanField", "NullBooleanField",
     "DecimalField", "FloatField", "PositiveSmallIntegerField",
     "SmallIntegerField", "IntegerField", "PositiveIntegerField", "AutoField",
     "BigIntegerField", "CharField", "TextField"}

\* django_field_to_index(field, **attr), by field.get_internal_type().  The
\* name StringField of the last return is bound nowhere in fields.py: looking
\* it up raises NameError.
django_field_to_index(dj_type, attr) ==
    CASE dj_type \in {"DateField", "DateTimeField"} ->
           AbstractField_init("DateField", attr)
      [] dj_type \in {"BooleanField", "NullBooleanField"} ->
           AbstractField_init("BooleanField", attr)
      [] dj_type \in {"DecimalField", "FloatField"} ->
           AbstractField_init("NumberField", << <<"coretype", "float">> >> \o attr)
      [] dj_type \in {"PositiveSmallIntegerField", "SmallIntegerField"} ->
           AbstractField_init("NumberField", << <<"coretype", "short">> >> \o attr)
      [] dj_type \in {"IntegerField", "PositiveIntegerField", "AutoField"} ->
           AbstractField_init("NumberField", << <<"coretype", "integer">> >> \o attr)
      [] dj_type \in {"BigIntegerField"} ->
           AbstractField_init("NumberField", << <<"coretype", "long">> >> \o attr)
      [] OTHER -> [exc |-> "NameError", self |-> NoObj]

(***************************************************************************)
(* Records, and the collaborators value resolution calls.                  *)
(***************************************************************************)
\* a model instance: plain attributes and a method
RecObject ==
    [kind |-> "obj",
     data |-> [id |-> "1", created |-> "2016-01-01", title |-> "<b>T</b>",
               headline |-> "<bound method>"]]

\* a row as `.values(...)` returns it
RecRow ==
    [kind |-> "dict",
     data |-> [id |-> "1", created |-> "2016-01-01", title |-> "<b>T</b>"]]

\* a mapping a caller built, holding a callable
RecMapping ==
    [kind |-> "dict",
     data |-> [id |-> "1", title |-> "<b>T</b>", headline |-> "<bound method>"]]

Records == {RecObject, RecRow, RecMapping}

\* callable(v), and v()
IsCallable(v) == v = "<bound method>"

CallResult(v) == "<i>H</i>"

\* truth value of a strategy attribute
Truthy(v) == v \notin {None, ""}

Ok(v) == [exc |-> None, val |-> v]

Raise(e) == [exc |-> e, val |-> None]

\* eval(self.eval_func) with `obj` in scope, for the expressions of this model:
\* an attribute access and a subscript.  The except clause re-raises type(e).
EvalExpr(expr, obj) ==
    CASE expr = "obj.title" ->
           IF obj.kind = "dict" THEN Raise("AttributeError")
           ELSE IF "title" \in DOMAIN obj.data THEN Ok(obj.data["title"])
           ELSE Raise("AttributeError")
      [] expr = "obj['title']" ->
           IF obj.kind = "obj" THEN Raise("TypeError")
           ELSE IF "title" \in DOMAIN obj.data THEN Ok(obj.data["title"])
           ELSE Raise("KeyError")
      [] OTHER -> Raise("SyntaxError")

\* loader.select_template([name]).render({'object': obj})
RenderTemplate(name, obj) ==
    IF name = "doc.txt"
    THEN Ok(IF obj.kind = "obj" THEN "<p>object</p>" ELSE "<p>row</p>")
    ELSE Raise("TemplateDoesNotExist")

\* the mutant of get_object_value that tries model_attr before eval_as
get_object_value_AttrFirst(self, obj) ==
    LET t == DictGet(self.dict, "template_name")
        e == DictGet(self.dict, "eval_func")
        m == DictGet(self.dict, "model_attr")
    IN  IF Truthy(t) THEN RenderTemplate(t, obj)
        ELSE IF Truthy(m) THEN
            IF obj.kind = "dict"
            THEN IF m \in DOMAIN obj.data THEN Ok(obj.data[m]) ELSE Raise("KeyError")
            ELSE IF m \notin DOMAIN obj.data THEN Raise("AttributeError")
            ELSE IF IsCallable(obj.data[m]) THEN Ok(CallResult(obj.data[m]))
            ELSE Ok(obj.data[m])
        ELSE IF Truthy(e) THEN EvalExpr(e, obj)
        ELSE Raise("KeyError")

\* the mutant of get_object_value that reads a mapping as an object
get_object_value_GetattrOnly(self, obj) ==
    LET t == DictGet(self.dict, "template_name")
        e == DictGet(self.dict, "eval_func")
        m == DictGet(self.dict, "model_attr")
    IN  IF Truthy(t) THEN RenderTemplate(t, obj)
        ELSE IF Truthy(e) THEN EvalExpr(e, obj)
        ELSE IF Truthy(m) THEN
            IF obj.kind = "dict" \/ m \notin DOMAIN obj.data THEN Raise("AttributeError")
            ELSE IF IsCallable(obj.data[m]) THEN Ok(CallResult(obj.data[m]))
            ELSE Ok(obj.data[m])
        ELSE Raise("KeyError")

\* AbstractField.get_object_value(self, obj)
get_object_value(self, obj) ==
    LET t == DictGet(self.dict, "template_name")
        e == DictGet(self.dict, "eval_func")
        m == DictGet(self.dict, "model_attr")
    IN  IF Truthy(t) THEN RenderTemplate(t, obj)
        ELSE IF Truthy(e) THEN EvalExpr(e, obj)
        ELSE IF Truthy(m) THEN
            IF obj.kind = "dict"
            THEN IF m \in DOMAIN obj.data THEN Ok(obj.data[m]) ELSE Raise("KeyError")
            ELSE IF m \notin DOMAIN obj.data THEN Raise("AttributeError")
            ELSE IF IsCallable(obj.data[m]) THEN Ok(CallResult(obj.data[m]))
            ELSE Ok(obj.data[m])
        ELSE Raise("KeyError")

(***************************************************************************)
(* Constructor calls, as the declarations of a project make them.          *)
(***************************************************************************)
\* the keyword arguments a call draws from
ArgPairs ==
    { <<"model_attr", "">>, <<"model_attr", "title">>, <<"model_attr", "headline">>,
      <<"eval_as", "obj.title">>, <<"eval_as", "obj['title']">>,
      <<"template", "doc.txt">>,
      <<"coretype", "float">>, <<"coretype", "text">>,
      <<"store", "True">>, <<"analyzer", "keyword">>,
      <<"fields", None>>, <<"fields", "{}">>, <<"fields", "{'raw': Keyword()}">>,
      <<"raw", "True">> }

\* keyword arguments: every key at most once, in the order given
ArgDicts ==
    { s \in UNION { [1..n -> ArgPairs] : n \in 0..MaxArgs } :
        \A i, j \in 1..Len(s) : i # j => s[i][1] # s[j][1] }

\* the **attr _get_fields passes: model_attr, a default, a hotfix
DjangoAttrs ==
    { << <<"model_attr", "title">> >>,
      << <<"model_attr", "title">>, <<"null_value", "0">> >>,
      << <<"model_attr", "title">>, <<"raw", "True">> >>,
      << <<"model_attr", "title">>, <<"null_value", "0">>, <<"raw", "True">> >> }

NoRec == [kind |-> None, data |-> <<>>]

NoIndex ==
    [status |-> "none", exc |-> None, decl |-> <<>>, fields |-> <<>>,
     fields_to_fetch |-> {}]

\* no command has run
NoCmd ==
    [stage |-> "none", project |-> <<>>, options |-> <<>>, env |-> <<>>,
     calls |-> <<>>, exc |-> None]

\* no nested field has been made
NoNested ==
    [stage |-> "none", self |-> NoObj, properties |-> <<>>, obj |-> NoRec,
     source |-> [kind |-> "none", one |-> NoRec, many |-> <<>>],
     res |-> [exc |-> None, val |-> <<>>, log |-> <<>>]]

NoCtor ==
    [op |-> "none", stage |-> "none", cls |-> None, dj |-> None, args |-> <<>>,
     exc |-> None, self |-> NoObj, rec |-> NoRec, res |-> Ok(None)]

\* cls(**args), the one constructor call of a run
NewField(cls, args) ==
    /\ ctor.stage = "none"
    /\ ctor' = [ctor EXCEPT !.op = "new", !.stage = "constructed",
                            !.cls = cls, !.args = args,
                            !.exc = AbstractField_init(cls, args).exc,
                            !.self = AbstractField_init(cls, args).self]
    /\ UNCHANGED <<nested, cmd, heap, index, threads>>

\* django_field_to_index(field, **attr), the one constructor call of a run
FromDjango(dj_type, attr) ==
    /\ ctor.stage = "none"
    /\ ctor' = [ctor EXCEPT !.op = "django", !.stage = "constructed",
                            !.dj = dj_type, !.args = attr,
                            !.exc = django_field_to_index(dj_type, attr).exc,
                            !.self = django_field_to_index(dj_type, attr).self]
    /\ UNCHANGED <<nested, cmd, heap, index, threads>>

\* self.get_object_value(obj) on the descriptor constructed
Resolve(rec) ==
    /\ ctor.stage = "constructed"
    /\ ctor.exc = None
    /\ ctor' = [ctor EXCEPT !.stage = "resolved", !.rec = rec,
                            !.res = get_object_value(ctor.self, rec)]
    /\ UNCHANGED <<nested, cmd, heap, index, threads>>

Init ==
    /\ ctor = NoCtor
    /\ cmd = NoCmd
    /\ nested = NoNested
    /\ heap = <<>>
    /\ index = NoIndex
    /\ threads = <<>>

\* a field declared in a class body: the constructor runs once, on a fresh
\* object
DeclareField ==
    /\ ctor.stage = "none"
    /\ \E cls \in FieldClasses, args \in ArgDicts : NewField(cls, args)

\* a field derived from a model column
DeclareFromColumn ==
    /\ ctor.stage = "none"
    /\ \E dj_type \in DjangoTypes, attr \in DjangoAttrs : FromDjango(dj_type, attr)

NextCtor ==
    \/ DeclareField
    \/ DeclareFromColumn
    \/ \E rec \in Records : Resolve(rec)

SpecCtor == Init /\ [][NextCtor]_vars

(***************************************************************************)
(* ModelIndexMeta: the construction of an index descriptor class.          *)
(***************************************************************************)
\* cls.model._meta.fields: the columns of the model, in declaration order
ModelColumns ==
    << [name |-> "id", type |-> "AutoField", rel |-> FALSE, default |-> None],
       [name |-> "created", type |-> "DateTimeField", rel |-> FALSE, default |-> "now"],
       [name |-> "title", type |-> "CharField", rel |-> FALSE, default |-> None],
       [name |-> "author", type |-> "ForeignKey", rel |-> TRUE, default |-> None] >>

RECURSIVE DictUpdate(_, _)
\* d.update(e)
DictUpdate(d0, e0) ==
    CHOOSE out \in {(
        IF e = <<>> THEN d
        ELSE DictUpdate(DictSet(d, Head(e)[1], Head(e)[2]), Tail(e))
        ) : d \in {d0}, e \in {e0}} : TRUE

RECURSIVE GetFieldsLoop(_, _, _, _, _)
\* the loop of _get_fields over the model's columns
GetFieldsLoop(cols0, fields0, excludes0, hotfixes0, final_fields0) ==
    CHOOSE out \in {(
        IF cols = <<>> THEN [exc |-> None, fields |-> final_fields]
        ELSE LET f == Head(cols)
                 attr0 == << <<"model_attr", f.name>> >>
                 attr1 == IF f.default # None
                          THEN DictSet(attr0, "null_value", f.default) ELSE attr0
                 attr == IF DictHas(hotfixes, f.name)
                         THEN DictUpdate(attr1, DictGet(hotfixes, f.name)) ELSE attr1
                 made == django_field_to_index(f.type, attr)
             IN  IF \/ (fields # {} /\ f.name \notin fields)
                    \/ (excludes # {} /\ f.name \in excludes)
                    \/ f.rel
                 THEN GetFieldsLoop(Tail(cols), fields, excludes, hotfixes, final_fields)
                 ELSE IF made.exc # None THEN [exc |-> made.exc, fields |-> <<>>]
                 ELSE GetFieldsLoop(Tail(cols), fields, excludes, hotfixes,
                                    DictSet(final_fields, f.name, made.self))
        ) : cols \in {cols0}, fields \in {fields0}, excludes \in {excludes0}, hotfixes \in {hotfixes0}, final_fields \in {final_fields0}} : TRUE

\* ModelIndexMeta._get_fields(cls, fields, excludes, hotfixes)
_get_fields(fields, excludes, hotfixes) ==
    GetFieldsLoop(ModelColumns, fields, excludes, hotfixes, <<>>)

RECURSIVE AddClassFieldsKeepModel(_, _)
\* the mutant of AddClassFields that keeps the model field of a name the
\* class body declares again
AddClassFieldsKeepModel(fields0, attrs0) ==
    CHOOSE out \in {(
        IF attrs = <<>> THEN fields
        ELSE IF DictHas(fields, Head(attrs)[1])
        THEN AddClassFieldsKeepModel(fields, Tail(attrs))
        ELSE AddClassFieldsKeepModel(
                DictSet(fields, Head(attrs)[1],
                        AbstractField_init(Head(attrs)[2], Head(attrs)[3]).self),
                Tail(attrs))
        ) : fields \in {fields0}, attrs \in {attrs0}} : TRUE

RECURSIVE AddClassFields(_, _)
\* the loop over cls.__dict__: a field declared at class level is added, or
\* replaces the model field of its name
AddClassFields(fields0, attrs0) ==
    CHOOSE out \in {(
        IF attrs = <<>> THEN fields
        ELSE AddClassFields(
                DictSet(fields, Head(attrs)[1],
                        AbstractField_init(Head(attrs)[2], Head(attrs)[3]).self),
                Tail(attrs))
        ) : fields \in {fields0}, attrs \in {attrs0}} : TRUE

\* the mutant of ModelIndexMeta_init that does not duplicate the id field
ModelIndexMeta_init_NoId(decl) ==
    LET got == _get_fields(decl.fields, decl.exclude, decl.hotfixes)
        fields == AddClassFields(got.fields, decl.attrs)
    IN  IF got.exc # None
        THEN [exc |-> got.exc, fields |-> <<>>, fields_to_fetch |-> {}]
        ELSE [exc |-> None, fields |-> fields,
              fields_to_fetch |-> DictKeys(got.fields) \cup decl.additional_fields]

\* the mutant of ModelIndexMeta_init that leaves '_id' out when the id field
\* is not among the fields
ModelIndexMeta_init_IdOptional(decl) ==
    LET got == _get_fields(decl.fields, decl.exclude, decl.hotfixes)
        fields == AddClassFields(got.fields, decl.attrs)
    IN  IF got.exc # None
        THEN [exc |-> got.exc, fields |-> <<>>, fields_to_fetch |-> {}]
        ELSE [exc |-> None,
              fields |-> IF DictHas(fields, decl.id_field)
                         THEN DictSet(fields, "_id", DictGet(fields, decl.id_field))
                         ELSE fields,
              fields_to_fetch |-> DictKeys(got.fields) \cup decl.additional_fields]

\* ModelIndexMeta.__init__ for a subclass of ModelIndex whose Meta is `decl`
\* and whose class body declares decl.attrs: the exception raised (None if
\* none), cls.fields and cls.fields_to_fetch.  field.contribute_to_class is
\* resolved through __getattr__ on the elasticsearch_dsl field and changes
\* nothing of the descriptor.
ModelIndexMeta_init(decl) ==
    LET got == _get_fields(decl.fields, decl.exclude, decl.hotfixes)
        fields == AddClassFields(got.fields, decl.attrs)
    IN  IF got.exc # None
        THEN [exc |-> got.exc, fields |-> <<>>, fields_to_fetch |-> {}]
        ELSE IF ~DictHas(fields, decl.id_field)
        THEN [exc |-> "KeyError", fields |-> <<>>, fields_to_fetch |-> {}]
        ELSE [exc |-> None,
              fields |-> DictSet(fields, "_id", DictGet(fields, decl.id_field)),
              fields_to_fetch |-> DictKeys(got.fields) \cup decl.additional_fields]

\* the position of key k in dict d
DictIndex(d, k) == CHOOSE i \in 1..Len(d) : d[i][1] = k

\* the objects cls.fields refers to, each once: '_id' is a second name of the
\* id field's object
FieldObjects(fields, id_field) ==
    LET live == SelectSeq(fields, LAMBDA p : p[1] # "_id")
    IN  [i \in 1..Len(live) |-> live[i][2]]

\* name -> object id, in the order of cls.fields
FieldRefs(fields, id_field) ==
    LET live == SelectSeq(fields, LAMBDA p : p[1] # "_id")
    IN  [i \in 1..Len(fields) |->
            <<fields[i][1],
              IF fields[i][1] = "_id" THEN DictIndex(live, id_field)
              ELSE DictIndex(live, fields[i][1])>>]

(***************************************************************************)
(* Using a descriptor: value, json and the base field built on first use.  *)
(***************************************************************************)
\* the name an elasticsearch_dsl field class serializes as its type
DslName(bfc) ==
    CASE bfc = "Text" -> "text"
      [] bfc = "Keyword" -> "keyword"
      [] bfc = "Date" -> "date"
      [] bfc = "Boolean" -> "boolean"
      [] bfc = "Nested" -> "nested"
      [] bfc = "Float" -> "float"
      [] bfc = "Double" -> "double"
      [] bfc = "Byte" -> "byte"
      [] bfc = "Short" -> "short"
      [] bfc = "Integer" -> "integer"
      [] bfc = "Long" -> "long"
      [] OTHER -> None

\* isinstance(val, Analyzer), and val.to_dict()
IsAnalyzer(val) ==
    val \in {"<Analyzer html_strip>", "<Analyzer html_strip keyword>",
             "<Analyzer edge>", "<Analyzer standard>"}

AnalyzerToDict(val) ==
    CASE val \in {"<Analyzer html_strip>", "<Analyzer html_strip keyword>"} -> "html_strip"
      [] val = "<Analyzer edge>" -> "edge"
      [] OTHER -> "standard"

\* one pass of the loop of _dsl_field_kwargs, on the item <<attr, val>>
KwargsItem(self, item, field_kwargs) ==
    IF item[1] \in _system_fields THEN field_kwargs
    ELSE IF /\ BaseFieldClass(self) = None
            /\ item[1] \in {"analyzer", "index_analyzer", "search_analyzer"}
            /\ IsAnalyzer(item[2])
         THEN DictSet(field_kwargs, item[1], AnalyzerToDict(item[2]))
    ELSE DictSet(field_kwargs, item[1], item[2])

RECURSIVE KwargsLoop(_, _, _)
KwargsLoop(self0, items0, field_kwargs0) ==
    CHOOSE out \in {(
        IF items = <<>> THEN field_kwargs
        ELSE KwargsLoop(self, Tail(items), KwargsItem(self, Head(items), field_kwargs))
        ) : self \in {self0}, items \in {items0}, field_kwargs \in {field_kwargs0}} : TRUE

\* AbstractField._dsl_field_kwargs(self) when nothing interferes
_dsl_field_kwargs(self) == KwargsLoop(self, self.dict, <<>>)

\* base_field.to_dict() of the base field built from `kwargs`
ToDict(bfc, kwargs) == DictSet(kwargs, "type", DslName(bfc))

\* AbstractField.json(self) once the base field is there
json(self) ==
    IF BaseFieldClass(self) # None
    THEN ToDict(BaseFieldClass(self), _dsl_field_kwargs(self))
    ELSE _dsl_field_kwargs(self)

\* django's striptags on the values of this model
striptags(v) ==
    CASE v = "<b>T</b>" -> "T"
      [] v = "<i>H</i>" -> "H"
      [] v = "<p>object</p>" -> "object"
      [] v = "<p>row</p>" -> "row"
      [] v = "<bound method>" -> ""
      [] OTHER -> v

\* what value() does with the resolved value: base_field.serialize (which
\* returns a scalar as it is), then for TextField and KeywordField striptags
\* unless the value is None
FinishValue(self, v) ==
    IF self.cls \in {"TextField", "KeywordField"}
    THEN IF v = None THEN None ELSE striptags(v)
    ELSE v

\* value(obj) when nothing interferes
value(self, obj) ==
    IF get_object_value(self, obj).exc # None THEN get_object_value(self, obj)
    ELSE Ok(FinishValue(self, get_object_value(self, obj).val))

(***************************************************************************)
(* The index descriptor in use.                                            *)
(***************************************************************************)
\* self.fields: name -> field object
FieldOf(name) == heap[DictGet(index.fields, name)]

FieldNames == [i \in 1..Len(index.fields) |-> index.fields[i][1]]

\* the mutant of HasPrepare that finds no prepare_ method
HasPrepareNever(name) == FALSE

\* hasattr(self, "prepare_%s" % name), and the method's result
HasPrepare(name) == name \in index.decl.prepare

Prepare(name, obj) == "prepared"

\* the rows of the model's table, by primary key
DbRows == [pk \in {"1"} |->
            [id |-> "1", created |-> "2016-01-01", title |-> "<b>T</b>", author |-> "7"]]

\* self.model.objects.filter(pk=obj_pk).values(*self.fields_to_fetch)[0]
FetchValues(obj_pk, fields_to_fetch) ==
    IF obj_pk \notin DOMAIN DbRows THEN Raise("ValueError")
    ELSE IF ~(fields_to_fetch \subseteq DOMAIN DbRows[obj_pk]) THEN Raise("ValueError")
    ELSE Ok([kind |-> "dict",
             data |-> [k \in fields_to_fetch |-> DbRows[obj_pk][k]]])

IdleThread ==
    [op |-> "idle", pc |-> "idle", obj |-> NoRec, meta_fields |-> FALSE,
     queue |-> <<>>, cur |-> None, doc |-> <<>>, called |-> {}, val |-> None,
     n |-> 0, pos |-> 0, field_kwargs |-> <<>>, exc |-> None]

RECURSIVE NextField(_)
\* the head of the loop over self.fields: a name with a prepare_ method is
\* answered on the spot, the next other name is handed to its field; with no
\* name left the call returns
NextField(th0) ==
    CHOOSE out \in {(
        IF th.queue = <<>> THEN [th EXCEPT !.pc = "done", !.cur = None]
        ELSE IF th.op = "serialize_object" /\ HasPrepare(Head(th.queue))
        THEN NextField([th EXCEPT !.queue = Tail(@),
                                  !.doc = DictSet(@, Head(th.queue), Prepare(Head(th.queue), th.obj))])
        ELSE [th EXCEPT !.queue = Tail(@), !.cur = Head(th.queue),
                        !.pc = IF th.op \in {"value", "serialize_object"}
                               THEN "value" ELSE "json"]
        ) : th \in {th0}} : TRUE

\* the call ends in an exception
Raised(th, e) == [th EXCEPT !.pc = "done", !.exc = e, !.cur = None, !.queue = <<>>]

\* the field call returns v: it is the document's value for the name
Returned(th, v) ==
    NextField([th EXCEPT !.doc = DictSet(@, th.cur, v), !.val = None,
                         !.n = 0, !.pos = 0, !.field_kwargs = <<>>])

\* field.value(obj) / idx.fields[name].value(obj)
CallValue(t, name, rec) ==
    /\ index.status = "ok"
    /\ threads[t].pc = "idle"
    /\ threads' = [threads EXCEPT ![t] =
            NextField([IdleThread EXCEPT !.op = "value", !.obj = rec, !.queue = <<name>>])]
    /\ UNCHANGED <<nested, cmd, ctor, heap, index>>

\* field.json() / field.to_dict()
CallJson(t, name) ==
    /\ index.status = "ok"
    /\ threads[t].pc = "idle"
    /\ threads' = [threads EXCEPT ![t] =
            NextField([IdleThread EXCEPT !.op = "json", !.queue = <<name>>])]
    /\ UNCHANGED <<nested, cmd, ctor, heap, index>>

\* idx.serialize_object(obj): obj is a record
CallSerializeObject(t, rec) ==
    /\ index.status = "ok"
    /\ threads[t].pc = "idle"
    /\ threads' = [threads EXCEPT ![t] =
            NextField([IdleThread EXCEPT !.op = "serialize_object", !.obj = rec,
                                         !.queue = FieldNames])]
    /\ UNCHANGED <<nested, cmd, ctor, heap, index>>

\* idx.serialize_object(None, obj_pk): the row is fetched first
CallSerializeObjectPk(t, obj_pk) ==
    /\ index.status = "ok"
    /\ threads[t].pc = "idle"
    /\ threads' = [threads EXCEPT ![t] =
            LET got == FetchValues(obj_pk, index.fields_to_fetch)
                th == [IdleThread EXCEPT !.op = "serialize_object"]
            IN  IF got.exc # None THEN Raised(th, got.exc)
                ELSE NextField([th EXCEPT !.obj = got.val, !.queue = FieldNames])]
    /\ UNCHANGED <<nested, cmd, ctor, heap, index>>

\* the mutant of MappingNames that never leaves a name out
MappingNamesAll(meta) == FieldNames

\* the names get_mapping keeps
MappingNames(meta) ==
    SelectSeq(FieldNames, LAMBDA name : meta \/ name \notin meta_fields)

\* idx.get_mapping(meta_fields)
CallGetMapping(t, meta) ==
    /\ index.status = "ok"
    /\ threads[t].pc = "idle"
    /\ threads' = [threads EXCEPT ![t] =
            NextField([IdleThread EXCEPT !.op = "get_mapping", !.meta_fields = meta,
                                         !.queue = MappingNames(meta)])]
    /\ UNCHANGED <<nested, cmd, ctor, heap, index>>

\* value(): get_object_value, then `self.base_field`, which is read from the
\* instance __dict__ when a first use has stored it there
StepValue(t) ==
    LET th == threads[t]
        self == FieldOf(th.cur)
        got == get_object_value(self, th.obj)
    IN  /\ th.pc = "value"
        /\ threads' = [threads EXCEPT ![t] =
                IF got.exc # None THEN Raised([th EXCEPT !.called = @ \cup {th.cur}], got.exc)
                ELSE IF DictHas(self.dict, "base_field")
                THEN Returned([th EXCEPT !.called = @ \cup {th.cur}],
                              FinishValue(self, got.val))
                ELSE [th EXCEPT !.called = @ \cup {th.cur}, !.val = got.val,
                                !.pc = "get_base_field"]]
        /\ UNCHANGED <<nested, cmd, ctor, heap, index>>

\* json(): `self.base_field`
StepJson(t) ==
    LET th == threads[t]
        self == FieldOf(th.cur)
    IN  /\ th.pc = "json"
        /\ threads' = [threads EXCEPT ![t] =
                IF DictHas(self.dict, "base_field") THEN Returned(th, json(self))
                ELSE [th EXCEPT !.pc = "get_base_field"]]
        /\ UNCHANGED <<nested, cmd, ctor, heap, index>>

\* get_base_field(): `self.base_field_class` (stored in __dict__ by its
\* cached_property on first access), then _dsl_field_kwargs creates the
\* iterator over self.__dict__
StepGetBaseField(t) ==
    LET th == threads[t]
        fid == DictGet(index.fields, th.cur)
        self == TouchBaseFieldClass(heap[fid])
    IN  /\ th.pc = "get_base_field"
        /\ heap' = [heap EXCEPT ![fid] = self]
        /\ threads' = [threads EXCEPT ![t] =
                [th EXCEPT !.pc = "iterate", !.n = Len(self.dict), !.pos = 0,
                           !.field_kwargs = <<>>]]
        /\ UNCHANGED <<nested, cmd, ctor, index>>

\* one next() of the iterator over self.__dict__: RuntimeError when the dict
\* has changed size since the iterator was created, else the next item is
\* handled, or the loop ends
StepIterate(t) ==
    LET th == threads[t]
        self == FieldOf(th.cur)
    IN  /\ th.pc = "iterate"
        /\ threads' = [threads EXCEPT ![t] =
                IF Len(self.dict) # th.n THEN Raised(th, "RuntimeError")
                ELSE IF th.pos < th.n
                THEN [th EXCEPT !.pos = @ + 1,
                                !.field_kwargs = KwargsItem(self, self.dict[th.pos + 1], @)]
                ELSE [th EXCEPT !.pc = "store"]]
        /\ UNCHANGED <<nested, cmd, ctor, heap, index>>

\* the mutant of StepStore that leaves the keyword arguments it built in
\* place of the attribute dictionary
StepStore_KeepsKwargs(t) ==
    LET th == threads[t]
        fid == DictGet(index.fields, th.cur)
        self == heap[fid]
    IN  /\ th.pc = "store"
        /\ heap' = [heap EXCEPT ![fid].dict =
                        DictSet(th.field_kwargs, "base_field", BaseFieldClass(self))]
        /\ threads' = [threads EXCEPT ![t] =
                IF th.op \in {"value", "serialize_object"}
                THEN Returned(th, FinishValue(self, th.val))
                ELSE Returned(th, ToDict(BaseFieldClass(self), th.field_kwargs))]
        /\ UNCHANGED <<nested, cmd, ctor, index>>

\* base_field_class(**kwargs) is built (base_field_class is not None for any
\* of the six classes) and the cached_property stores it in self.__dict__;
\* value()/json() go on with it
StepStore(t) ==
    LET th == threads[t]
        fid == DictGet(index.fields, th.cur)
        self == heap[fid]
    IN  /\ th.pc = "store"
        /\ heap' = [heap EXCEPT ![fid].dict = DictSet(@, "base_field", BaseFieldClass(self))]
        /\ threads' = [threads EXCEPT ![t] =
                IF th.op \in {"value", "serialize_object"}
                THEN Returned(th, FinishValue(self, th.val))
                ELSE Returned(th, ToDict(BaseFieldClass(self), th.field_kwargs))]
        /\ UNCHANGED <<nested, cmd, ctor, index>>

\* the caller takes the result
Return(t) ==
    /\ threads[t].pc = "done"
    /\ threads' = [threads EXCEPT ![t] = IdleThread]
    /\ UNCHANGED <<nested, cmd, ctor, heap, index>>

\* the analysis definition of an Analyzer object: section -> name -> body
AnalysisDefinition(val) ==
    CASE val = "<Analyzer html_strip>" ->
            << <<"analyzer", << <<"html_strip", "custom(standard, html)">> >> >>,
               <<"char_filter", << <<"html", "html_strip">> >> >> >>
      [] val = "<Analyzer html_strip keyword>" ->
            << <<"analyzer", << <<"html_strip", "custom(keyword, html)">> >> >>,
               <<"char_filter", << <<"html", "html_strip">> >> >> >>
      [] val = "<Analyzer edge>" ->
            << <<"analyzer", << <<"edge", "custom(edge_ngram, html)">> >> >>,
               <<"tokenizer", << <<"edge_ngram", "edge_ngram(1, 8)">> >> >>,
               <<"char_filter", << <<"html", "html_strip">> >> >> >>
      [] OTHER -> <<>>

\* analyzer.get_analysis_definition() is None: a built-in analyzer has
\* nothing to define
DefinitionIsNone(val) == val = "<Analyzer standard>"

\* hasattr(field, name) for an analyzer attribute: an instance attribute, or
\* __getattr__, which reads self.base_field_class and finds no such attribute
\* on the elasticsearch_dsl class
HasAnalyzerAttr(self, name) == DictHas(self.dict, name)

\* the mutant of MergeDefinition that assigns the sections of a definition
\* instead of merging them
MergeDefinitionAssign(analysis0, definition0) ==
    DictUpdate(analysis0, definition0)

RECURSIVE MergeDefinition(_, _)
\* for key in definition: analysis.setdefault(key, {}).update(definition[key])
MergeDefinition(analysis0, definition0) ==
    CHOOSE out \in {(
        IF definition = <<>> THEN analysis
        ELSE MergeDefinition(
                DictSet(analysis, Head(definition)[1],
                        DictUpdate(DictGetOr(analysis, Head(definition)[1], <<>>),
                                   Head(definition)[2])),
                Tail(definition))
        ) : analysis \in {analysis0}, definition \in {definition0}} : TRUE

RECURSIVE AnalysisOfField(_, _, _)
\* the loop over the three analyzer attributes of one field
AnalysisOfField(self0, names0, analysis0) ==
    CHOOSE out \in {(
        IF names = <<>> THEN analysis
        ELSE IF /\ HasAnalyzerAttr(self, Head(names))
                /\ IsAnalyzer(DictGet(self.dict, Head(names)))
                /\ ~DefinitionIsNone(DictGet(self.dict, Head(names)))
             THEN AnalysisOfField(self, Tail(names),
                      MergeDefinition(analysis, AnalysisDefinition(DictGet(self.dict, Head(names)))))
        ELSE AnalysisOfField(self, Tail(names), analysis)
        ) : self \in {self0}, names \in {names0}, analysis \in {analysis0}} : TRUE

AnalyzerNames == <<"analyzer", "index_analyzer", "search_analyzer">>

RECURSIVE AnalysisLoop(_, _)
\* the loop of collect_analysis over self.fields.values()
AnalysisLoop(refs0, analysis0) ==
    CHOOSE out \in {(
        IF refs = <<>> THEN analysis
        ELSE AnalysisLoop(Tail(refs),
                          AnalysisOfField(heap[Head(refs)[2]], AnalyzerNames, analysis))
        ) : refs \in {refs0}, analysis \in {analysis0}} : TRUE

\* a field whose hasattr test falls through to __getattr__ has had its
\* base_field_class read
TouchedByHasattr(self) ==
    IF \E name \in {"analyzer", "index_analyzer", "search_analyzer"} :
            ~HasAnalyzerAttr(self, name)
    THEN TouchBaseFieldClass(self) ELSE self

\* idx.collect_analysis()
CollectAnalysis(t) ==
    /\ index.status = "ok"
    /\ threads[t].pc = "idle"
    /\ heap' = [fid \in DOMAIN heap |->
                    IF \E i \in 1..Len(index.fields) : index.fields[i][2] = fid
                    THEN TouchedByHasattr(heap[fid]) ELSE heap[fid]]
    /\ threads' = [threads EXCEPT ![t] =
            [IdleThread EXCEPT !.op = "collect_analysis", !.pc = "done",
                               !.doc = AnalysisLoop(index.fields, <<>>)]]
    /\ UNCHANGED <<nested, cmd, ctor, index>>

(***************************************************************************)
(* The index declarations of a project.                                    *)
(***************************************************************************)
\* fields declared in the class body: <<name, class, keyword arguments>>
AttrCandidates ==
    << <<"title", "TextField", << <<"model_attr", "title">>,
                                  <<"analyzer", "<Analyzer html_strip>">> >> >>,
       <<"summary", "TextField", << <<"eval_as", "obj.title">>,
                                    <<"search_analyzer", "<Analyzer edge>">> >> >>,
       <<"id", "NumberField", << <<"coretype", "long">>, <<"model_attr", "id">> >> >>,
       <<"_type", "KeywordField", << <<"model_attr", "title">> >> >>,
       <<"rank", "TextField", << <<"analyzer", "<Analyzer html_strip keyword>">>,
                                 <<"search_analyzer", "<Analyzer standard>">> >> >> >>

\* the i-th smallest element of a set of numbers
NthOf(S, i) == CHOOSE k \in S : Cardinality({j \in S : j < k}) = i - 1

\* class bodies: up to `most` of the candidates, in their order
ClassBodies(most) ==
    { [i \in 1..Cardinality(S) |-> AttrCandidates[NthOf(S, i)]] :
        S \in {S \in SUBSET (1..Len(AttrCandidates)) : Cardinality(S) <= most} }

\* the declarations of the sequential runs.  Two combinations that behave as
\* another one are left out: Meta.exclude next to a Meta.fields that does
\* not list the column, and Meta.additional_fields naming a column that is
\* derived from the model anyway.
Decls ==
    { d \in [fields : {{}, {"created"}},
             exclude : {{}, {"title"}},
             hotfixes : {<<>>},
             additional_fields : {{}, {"title"}},
             attrs : ClassBodies(MaxClassAttrs),
             prepare : {{}, {"rank", "_id"}},
             id_field : {"id", "title"}] :
        /\ (d.fields = {} \/ d.exclude = {})
        /\ (d.additional_fields = {} \/ d.fields # {} \/ d.exclude # {}) }

RECURSIVE ClassBodyExc(_)
\* the first exception a field constructor of the class body raises
ClassBodyExc(attrs0) ==
    CHOOSE out \in {(
        IF attrs = <<>> THEN None
        ELSE IF AbstractField_init(Head(attrs)[2], Head(attrs)[3]).exc # None
        THEN AbstractField_init(Head(attrs)[2], Head(attrs)[3]).exc
        ELSE ClassBodyExc(Tail(attrs))
        ) : attrs \in {attrs0}} : TRUE

\* the class statement of a ModelIndex subclass (ModelIndexMeta.__init__) and
\* the one instance made of it (ModelIndex.__init__: self.fields =
\* dict(cls.fields))
DefineIndex(decl) ==
    \E body \in {ClassBodyExc(decl.attrs)}, made \in {ModelIndexMeta_init(decl)} :
        /\ index.status = "none"
        /\ IF body # None \/ made.exc # None
           THEN /\ index' = [NoIndex EXCEPT !.status = "error", !.decl = decl,
                                            !.exc = IF body # None THEN body ELSE made.exc]
                /\ heap' = heap
           ELSE /\ index' = [status |-> "ok", exc |-> None, decl |-> decl,
                             fields |-> FieldRefs(made.fields, decl.id_field),
                             fields_to_fetch |-> made.fields_to_fetch]
                /\ heap' = FieldObjects(made.fields, decl.id_field)
        /\ UNCHANGED <<nested, cmd, ctor, threads>>

\* one caller
InitIndex ==
    /\ ctor = NoCtor
    /\ cmd = NoCmd
    /\ nested = NoNested
    /\ heap = <<>>
    /\ index = NoIndex
    /\ threads = [t \in {"main"} |-> IdleThread]

Declared ==
    /\ index.status = "none"
    /\ \E decl \in Decls : DefineIndex(decl)

\* the construction of the index, then the calls a thread makes, and their
\* steps
Next ==
    \/ Declared
    \/ \E t \in DOMAIN threads, i \in 1..Len(index.fields), rec \in Records :
            CallValue(t, index.fields[i][1], rec)
    \/ \E t \in DOMAIN threads, i \in 1..Len(index.fields) :
            CallJson(t, index.fields[i][1])
    \/ \E t \in DOMAIN threads, rec \in Records : CallSerializeObject(t, rec)
    \/ \E t \in DOMAIN threads, obj_pk \in {"1", "404"} : CallSerializeObjectPk(t, obj_pk)
    \/ \E t \in DOMAIN threads, meta \in BOOLEAN : CallGetMapping(t, meta)
    \/ \E t \in DOMAIN threads : CollectAnalysis(t)
    \/ \E t \in DOMAIN threads : StepValue(t)
    \/ \E t \in DOMAIN threads : StepJson(t)
    \/ \E t \in DOMAIN threads : StepGetBaseField(t)
    \/ \E t \in DOMAIN threads : StepIterate(t)
    \/ \E t \in DOMAIN threads : StepStore(t)
    \/ \E t \in DOMAIN threads : Return(t)

Spec == InitIndex /\ [][Next]_vars

\* two index declarations, for the runs with two callers
DeclsConc ==
    { [fields |-> {}, exclude |-> {"title"}, hotfixes |-> <<>>,
       additional_fields |-> {}, attrs |-> <<>>, prepare |-> {},
       id_field |-> "id"],
      [fields |-> {"created"}, exclude |-> {}, hotfixes |-> <<>>,
       additional_fields |-> {},
       attrs |-> << AttrCandidates[1] >>, prepare |-> {},
       id_field |-> "title"] }

\* two threads share the descriptors
InitConc ==
    /\ ctor = NoCtor
    /\ cmd = NoCmd
    /\ nested = NoNested
    /\ heap = <<>>
    /\ index = NoIndex
    /\ threads = [t \in {"A", "B"} |-> IdleThread]

DeclaredConc ==
    /\ index.status = "none"
    /\ \E decl \in DeclsConc : DefineIndex(decl)

NextConc ==
    \/ DeclaredConc
    \/ \E t \in DOMAIN threads, i \in 1..Len(index.fields) :
            CallValue(t, index.fields[i][1], RecObject)
    \/ \E t \in DOMAIN threads, i \in 1..Len(index.fields) :
            CallJson(t, index.fields[i][1])
    \/ \E t \in DOMAIN threads : CallSerializeObject(t, RecObject)
    \/ \E t \in DOMAIN threads : CallGetMapping(t, FALSE)
    \/ \E t \in DOMAIN threads : StepValue(t)
    \/ \E t \in DOMAIN threads : StepJson(t)
    \/ \E t \in DOMAIN threads : StepGetBaseField(t)
    \/ \E t \in DOMAIN threads : StepIterate(t)
    \/ \E t \in DOMAIN threads : StepStore(t)
    \/ \E t \in DOMAIN threads : Return(t)

SpecConc == InitConc /\ [][NextConc]_vars

(***************************************************************************)
(* The search_index management command (Command.handle).                   *)
(***************************************************************************)
\* BUNGIESEARCH settings of a project: index name -> the models defined on
\* it, in the order of the settings
Projects ==
    { << <<"main", <<"Article", "User">> >>, <<"a", <<"Article">> >> >>,
      << <<"main", <<"Article", "User">> >> >>,
      << <<"a", <<"User">> >> >> }

\* the values of the options handle() reads
Actions == {None, "create", "update", "update-mapping", "delete", "delete-mapping"}

OptionSets ==
    [action : Actions, confirmed : BOOLEAN,
     index : {None, "main", "a"}, models : {None, "Article", "Article,User"}]

\* what the code outside this command does: `lenient` says whether a lookup
\* of an index name that is not configured answers with nothing (TRUE) or
\* raises KeyError; `engine` is what put_mapping meets: the engine accepts
\* ("ok"), or it raises and the operator types abort ("fail-abort"), types
\* something else ("fail-continue"), or raw_input is not defined
\* ("fail-noinput")
Envs == [lenient : BOOLEAN, engine : {"ok", "fail-abort", "fail-continue", "fail-noinput"}]

\* iterating a str gives its characters
Chars(str) ==
    CASE str = "main" -> <<"m", "a", "i", "n">>
      [] str = "a" -> <<"a">>

\* str.split(',')
SplitComma(str) ==
    CASE str = "Article" -> <<"Article">>
      [] str = "Article,User" -> <<"Article", "User">>

\* action.startswith('delete')
StartsWithDelete(action) == action \in {"delete", "delete-mapping"}

\* src.get_indices()
get_indices(project) == [i \in 1..Len(project) |-> project[i][1]]

\* src.get_models(index), src.get_model_indices(index) and
\* src._idx_name_to_mdl_to_mdlidx[index]: the models of a configured index
get_models(project, env, index_name) ==
    IF DictHas(project, index_name) THEN Ok(DictGet(project, index_name))
    ELSE IF env.lenient THEN Ok(<<>>)
    ELSE Raise("KeyError")

RECURSIVE Concat(_)
\* the calls of the passes of a loop, one after the other
Concat(seqs0) ==
    CHOOSE out \in {(
        IF seqs = <<>> THEN <<>> ELSE Head(seqs) \o Concat(Tail(seqs))
        ) : seqs \in {seqs0}} : TRUE

\* a call made and nothing raised
Called(call) == [calls |-> <<call>>, exc |-> None]

\* nothing called, e raised
Failed(e) == [calls |-> <<>>, exc |-> e]

\* a for loop whose passes are `outcomes`: the passes run in order up to and
\* including the first that raises
Sequential(outcomes0) ==
    CHOOSE out \in {(
        LET bad == {i \in 1..Len(outcomes) : outcomes[i].exc # None}
            last == IF bad = {} THEN Len(outcomes)
                    ELSE CHOOSE i \in bad : \A j \in bad : i <= j
        IN  [calls |-> Concat([i \in 1..last |-> outcomes[i].calls]),
             exc |-> IF bad = {} THEN None ELSE outcomes[last].exc]
        ) : outcomes \in {outcomes0}} : TRUE

\* the mutant of DeleteAllowed that does not ask for the flag
DeleteAllowedAlways(options) == TRUE

\* options['confirmed'], the --guilty-as-charged flag
DeleteAllowed(options) == options.confirmed

\* the indices the create, update-mapping and delete branches work on
SelectedIndices(project, options) ==
    IF options.index # None THEN <<options.index>> ELSE get_indices(project)

\* the branch of the action 'delete'
HandleDelete(project, options) ==
    LET indices == SelectedIndices(project, options)
    IN  Sequential([i \in 1..Len(indices) |-> Called(<<"delete", indices[i]>>)])

\* the branch of the action 'delete-mapping': with --models the log line
\* reads the local `index` before any statement has assigned it
HandleDeleteMapping(project, options, env) ==
    IF options.models # None THEN Failed("UnboundLocalError")
    ELSE LET indices == SelectedIndices(project, options)
             found == [i \in 1..Len(indices) |-> get_models(project, env, indices[i])]
             lookup == Sequential([i \in 1..Len(indices) |-> Failed(found[i].exc)])
         IN  IF lookup.exc # None THEN lookup
             ELSE Sequential([i \in 1..Len(indices) |->
                                Called(<<"delete_mapping", indices[i], found[i].val>>)])

\* the branch of the action 'create'
HandleCreate(project, options, env) ==
    LET indices == SelectedIndices(project, options)
        created == Sequential([i \in 1..Len(indices) |->
                        LET got == get_models(project, env, indices[i])
                        IN  IF got.exc # None THEN Failed(got.exc)
                            ELSE Called(<<"create", indices[i], got.val>>)])
    IN  IF created.exc # None THEN created
        ELSE [created EXCEPT !.calls = Append(@, <<"health", indices>>)]

\* one put_mapping of the branch 'update-mapping', with its except clause
PutMapping(env, index_name, model_name) ==
    [calls |-> << <<"put_mapping", index_name, model_name>> >>,
     exc |-> CASE env.engine = "fail-abort" -> "TransportError"
               [] env.engine = "fail-noinput" -> "NameError"
               [] OTHER -> None]

\* the branch of the action 'update-mapping'
HandleUpdateMapping(project, options, env) ==
    LET indices == SelectedIndices(project, options)
        models == IF options.models # None THEN SplitComma(options.models) ELSE <<>>
    IN  Sequential([i \in 1..Len(indices) |->
            LET got == get_models(project, env, indices[i])
                names == IF got.exc # None THEN <<>>
                         ELSE SelectSeq(got.val,
                                LAMBDA m : models = <<>> \/ \E k \in 1..Len(models) : models[k] = m)
            IN  IF got.exc # None THEN Failed(got.exc)
                ELSE Sequential([j \in 1..Len(names) |-> PutMapping(env, indices[i], names[j])])])

\* the mutant of UpdateIndices that takes --index as one index name
UpdateIndicesAsList(project, options) == SelectedIndices(project, options)

\* the indices of the last branch (the action 'update'): with --index it is
\* `indices = options['index']`, the string itself
UpdateIndices(project, options) ==
    IF options.index # None THEN Chars(options.index) ELSE get_indices(project)

\* the last branch: the action 'update'
HandleUpdate(project, options, env) ==
    LET indices == UpdateIndices(project, options)
        found == [i \in 1..Len(indices) |-> get_models(project, env, indices[i])]
        lookup == Sequential([i \in 1..Len(indices) |-> Failed(found[i].exc)])
        model_names == IF options.models # None THEN SplitComma(options.models)
                       ELSE Concat([i \in 1..Len(indices) |-> found[i].val])
    IN  IF options.models = None /\ lookup.exc # None THEN lookup
        ELSE Sequential([j \in 1..Len(model_names) |->
                            Called(<<"update_index", model_names[j]>>)])

\* Command.handle(**options): the calls made to the engine and to
\* update_index, in order, and the exception handle ends in (None if none)
handle(project, options, env) ==
    IF options.action = None THEN Failed("ValueError")
    ELSE IF StartsWithDelete(options.action)
    THEN IF ~DeleteAllowed(options) THEN Failed("ValueError")
         ELSE IF options.action = "delete" THEN HandleDelete(project, options)
         ELSE HandleDeleteMapping(project, options, env)
    ELSE IF options.action = "create" THEN HandleCreate(project, options, env)
    ELSE IF options.action = "update-mapping" THEN HandleUpdateMapping(project, options, env)
    ELSE HandleUpdate(project, options, env)

\* manage.py search_index ..., run once
RunCommand(project, options, env) ==
    /\ \E done \in {handle(project, options, env)} :
            cmd' = [stage |-> "done", project |-> project, options |-> options,
                    env |-> env, calls |-> done.calls, exc |-> done.exc]
    /\ UNCHANGED <<nested, ctor, heap, index, threads>>

Invoke ==
    /\ cmd.stage = "none"
    /\ \E project \in Projects, options \in OptionSets, env \in Envs :
            RunCommand(project, options, env)

NextCmd == Invoke

SpecCmd == Init /\ [][NextCmd]_vars

(***************************************************************************)
(* NestedField: a field whose value is made by child fields.               *)
(***************************************************************************)
\* the child fields a properties dict draws from: <<key, class, arguments>>
ChildCandidates ==
    << <<"name", "TextField", << <<"model_attr", "title">> >> >>,
       <<"no", "NumberField", << <<"coretype", "integer">>, <<"model_attr", "id">> >> >>,
       <<"head", "KeywordField", << <<"model_attr", "headline">> >> >>,
       <<"plain", "TextField", << <<"eval_as", "obj.title">> >> >>,
       <<"bare", "TextField", <<>> >> >>

\* properties dicts: up to MaxChildren of the candidates, key -> field
PropertyDicts ==
    { [i \in 1..Cardinality(S) |->
            <<ChildCandidates[NthOf(S, i)][1],
              AbstractField_init(ChildCandidates[NthOf(S, i)][2],
                                 ChildCandidates[NthOf(S, i)][3]).self>>] :
        S \in {S \in SUBSET (1..Len(ChildCandidates)) : Cardinality(S) <= MaxChildren} }

\* the keyword arguments of a NestedField: `multi` is optional; the value of
\* `properties` is a reference to the dict
NestedArgs ==
    { << <<"model_attr", "related">>, <<"properties", "<properties>">> >>,
      << <<"model_attr", "related">>, <<"properties", "<properties>">>,
         <<"multi", "True">> >>,
      << <<"model_attr", "related">>, <<"properties", "<properties>">>,
         <<"multi", "False">> >> }

\* what the attribute `related` of a record refers to: nothing (None), one
\* record, or a list of up to MaxItems records
Sources ==
    {[kind |-> "none", one |-> NoRec, many |-> <<>>]}
    \cup {[kind |-> "one", one |-> r, many |-> <<>>] : r \in Records}
    \cup {[kind |-> "many", one |-> NoRec, many |-> items] :
            items \in UNION {[1..n -> Records] : n \in 0..MaxItems}}

\* the record the nested field is applied to, as a model instance or as a
\* mapping: its attribute `related` holds a reference to the source
Outer(kind, source) ==
    [kind |-> kind,
     data |-> [related |-> IF source.kind = "none" THEN None ELSE "<related>"]]

\* an object without the attributes of a record (None, or a list), as a
\* child field sees it
Opaque == [kind |-> "obj", data |-> <<>>]

\* the object a value refers to
Deref(v, source) == IF v = "<related>" /\ source.kind = "one" THEN source.one ELSE Opaque

\* whether `for item in value` can iterate, and the items
IsIterable(v, source) == v = "<related>" /\ source.kind = "many"

ItemsOf(v, source) == source.many

\* Nested.__init__ sets multi to True unless given; Field keeps it as _multi
Nested_multi(self) == DictGetOr(self.dict, "multi", "True") # "False"

\* elasticsearch_dsl's AttrDict(value), and to_dict() of it
AttrDict(d) == [attrdict |-> d]

AttrDict_to_dict(a) == a.attrdict

RECURSIVE NestedValueLoop(_, _, _, _)
\* the loop of nested_value over self.properties.items(); the log is the
\* sequence of <<key, object>> the child fields were applied to
NestedValueLoop(rest0, obj0, value0, log0) ==
    CHOOSE out \in {(
        IF rest = <<>> THEN [exc |-> None, val |-> AttrDict(val), log |-> log]
        ELSE LET got == value(Head(rest)[2], obj)
             IN  IF got.exc # None
                 THEN [exc |-> got.exc, val |-> <<>>,
                       log |-> Append(log, <<Head(rest)[1], obj>>)]
                 ELSE NestedValueLoop(Tail(rest), obj,
                                      DictSet(val, Head(rest)[1], got.val),
                                      Append(log, <<Head(rest)[1], obj>>))
        ) : rest \in {rest0}, obj \in {obj0}, val \in {value0}, log \in {log0}} : TRUE

\* NestedField.nested_value(self, obj)
nested_value(properties, obj, log) == NestedValueLoop(properties, obj, <<>>, log)

RECURSIVE NestedItemsLoop(_, _, _, _)
\* [self.nested_value(item) for item in value]
NestedItemsLoop(properties0, items0, nested0, log0) ==
    CHOOSE out \in {(
        IF items = <<>> THEN [exc |-> None, val |-> acc, log |-> log]
        ELSE LET one == nested_value(properties, Head(items), log)
             IN  IF one.exc # None THEN one
                 ELSE NestedItemsLoop(properties, Tail(items),
                                      Append(acc, one.val), one.log)
        ) : properties \in {properties0}, items \in {items0}, acc \in {nested0}, log \in {log0}} : TRUE

\* base_field.serialize(nested): a list is serialized item by item, a
\* composite by its to_dict()
Nested_serialize(multi, data) ==
    IF multi THEN [i \in 1..Len(data) |-> AttrDict_to_dict(data[i])]
    ELSE AttrDict_to_dict(data)

\* the mutant of NestedField_value that makes composites of the items equal
\* to the first only
NestedField_value_FirstItem(self, properties, obj, source) ==
    LET multi == Nested_multi(self)
        got == get_object_value(self, obj)
        log == << <<"self", obj>> >>
    IN  IF got.exc # None THEN [exc |-> got.exc, val |-> <<>>, log |-> log]
        ELSE IF ~multi
        THEN LET one == nested_value(properties, Deref(got.val, source), log)
             IN  IF one.exc # None THEN one
                 ELSE [one EXCEPT !.val = Nested_serialize(FALSE, one.val)]
        ELSE IF ~IsIterable(got.val, source)
        THEN [exc |-> "TypeError", val |-> <<>>, log |-> log]
        ELSE LET all == NestedItemsLoop(properties,
                                        SelectSeq(ItemsOf(got.val, source),
                                                  LAMBDA item :
                                                    item = Head(ItemsOf(got.val, source))),
                                        <<>>, log)
             IN  IF all.exc # None THEN all
                 ELSE [all EXCEPT !.val = Nested_serialize(TRUE, all.val)]

\* NestedField.value(self, obj): the exception raised (None if none), the
\* value returned and the log of get_object_value calls (<<"self", obj>>
\* for the nested field's own)
NestedField_value(self, properties, obj, source) ==
    LET multi == Nested_multi(self)
        got == get_object_value(self, obj)
        log == << <<"self", obj>> >>
    IN  IF got.exc # None THEN [exc |-> got.exc, val |-> <<>>, log |-> log]
        ELSE IF ~multi
        THEN LET one == nested_value(properties, Deref(got.val, source), log)
             IN  IF one.exc # None THEN one
                 ELSE [one EXCEPT !.val = Nested_serialize(FALSE, one.val)]
        ELSE IF ~IsIterable(got.val, source)
        THEN [exc |-> "TypeError", val |-> <<>>, log |-> log]
        ELSE LET all == NestedItemsLoop(properties, ItemsOf(got.val, source), <<>>, log)
             IN  IF all.exc # None THEN all
                 ELSE [all EXCEPT !.val = Nested_serialize(TRUE, all.val)]

\* NestedField(model_attr=..., properties=..., [multi=...])
MakeNested(args, properties) ==
    /\ nested.stage = "none"
    /\ \E made \in {AbstractField_init("NestedField", args)} :
            /\ made.exc = None
            /\ nested' = [NoNested EXCEPT !.stage = "made", !.self = made.self,
                                          !.properties = properties]
    /\ UNCHANGED <<ctor, heap, index, threads, cmd>>

DeclareNested ==
    /\ nested.stage = "none"
    /\ \E args \in NestedArgs, properties \in PropertyDicts : MakeNested(args, properties)

\* field.value(obj)
NestedValue(kind, source) ==
    /\ nested.stage = "made"
    /\ \E obj \in {Outer(kind, source)} :
        \E res \in {NestedField_value(nested.self, nested.properties, obj, source)} :
            nested' = [nested EXCEPT !.stage = "done", !.obj = obj,
                                     !.source = source, !.res = res]
    /\ UNCHANGED <<ctor, heap, index, threads, cmd>>

ResolveNested ==
    /\ nested.stage = "made"
    /\ \E kind \in {"obj", "dict"}, source \in Sources : NestedValue(kind, source)

NextNested ==
    \/ DeclareNested
    \/ ResolveNested

SpecNested == Init /\ [][NextNested]_vars

(***************************************************************************)
(* Properties of construction (checked under SpecCtor).                    *)
(***************************************************************************)
StrategyKeys == {"model_attr", "eval_as", "template"}

\* the strategies a call configures
Configured(args) == {k \in StrategyKeys : DictHas(args, k)}

\* the call without its strategies
StripStrategies(args) == SelectSeq(args, LAMBDA p : p[1] \notin StrategyKeys)

\* the option names of a call: what is left once __init__ has popped the
\* strategies and, for a class with several core types, coretype
OptionNames(cls, args) ==
    DictKeys(args) \ (StrategyKeys \cup (IF cls = "NumberField" THEN {"coretype"} ELSE {}))

\* C1 as stated: a constructor call with zero or with several strategies
\* raises, and every constructed descriptor has exactly one strategy.
C1_ExactlyOneStrategyOrError ==
    ctor.op = "new" =>
        /\ (Cardinality(Configured(ctor.args)) # 1 => ctor.exc # None)
        /\ (ctor.exc = None => Cardinality(Configured(ctor.args)) = 1)

\* C1 as amended: construction does not look at the strategies.  A call
\* raises exactly when the same call without its strategies raises; a
\* descriptor constructed with no non-empty strategy raises KeyError when its
\* value is resolved, for every record.
C1_StrategiesCheckedAtResolution ==
    ctor.op = "new" =>
        /\ ctor.exc = AbstractField_init(ctor.cls, StripStrategies(ctor.args)).exc
        /\ ((ctor.exc = None /\ \A k \in {"model_attr", "eval_func", "template_name"} :
                                    ~Truthy(DictGet(ctor.self.dict, k)))
            => \A rec \in Records : get_object_value(ctor.self, rec) = Raise("KeyError"))

\* a descriptor constructed with no strategy at all
C1_Witness ==
    /\ ctor.op = "new"
    /\ ctor.cls = "TextField"
    /\ Configured(ctor.args) = {}
    /\ ctor.exc = None
    /\ ctor.self # NoObj

\* C7 as stated: for every concrete class, a missing or unsupported coretype
\* of a class with several core types, or an option that is neither allowed
\* for the class nor common, ends the constructor in an error.
C7_BadArgumentsRaise ==
    ctor.op = "new" =>
        ((  \/ /\ ctor.cls = "NumberField"
               /\ DictGetOr(ctor.args, "coretype", None) \notin NumberCoretypes
            \/ \E a \in OptionNames(ctor.cls, ctor.args) :
                    a \notin ClassFields(ctor.cls) \cup common_fields )
         => (ctor.exc # None /\ ctor.self = NoObj))

\* C7 as amended: (a) NumberField raises KeyError for a missing or unsupported
\* coretype; (b) a class that declares its allowed options raises KeyError for
\* an option outside them and the common options, unless the call also passes
\* `fields`; (c) NestedField declares no allowed options and rejects no option
\* name: it raises only for an option that names a read-only property.
C7_BadArgumentsRaiseWhereChecked ==
    ctor.op = "new" =>
        /\ ((ctor.cls = "NumberField"
             /\ DictGetOr(ctor.args, "coretype", None) \notin NumberCoretypes)
            => (ctor.exc = "KeyError" /\ ctor.self = NoObj))
        /\ ((ctor.cls # "NestedField"
             /\ ~DictHas(ctor.args, "fields")
             /\ \E a \in OptionNames(ctor.cls, ctor.args) :
                     a \notin ClassFields(ctor.cls) \cup common_fields)
            => (ctor.exc = "KeyError" /\ ctor.self = NoObj))
        /\ (ctor.cls = "NestedField"
            => /\ ctor.exc \in {None, "AttributeError"}
               /\ (ctor.exc = None) <=>
                     (OptionNames(ctor.cls, ctor.args) \cap ReadOnlyProperties("NestedField") = {}))

\* a number field refused for an unsupported coretype
C7_Witness ==
    /\ ctor.op = "new"
    /\ ctor.cls = "NumberField"
    /\ DictGetOr(ctor.args, "coretype", None) = "text"
    /\ ctor.exc = "KeyError"

\* the field class and core type C8 names for a column type
ExpectedClass(dj_type) ==
    CASE dj_type \in {"DateField", "DateTimeField"} -> <<"DateField", "date">>
      [] dj_type \in {"BooleanField", "NullBooleanField"} -> <<"BooleanField", "boolean">>
      [] dj_type \in {"DecimalField", "FloatField"} -> <<"NumberField", "float">>
      [] dj_type \in {"PositiveSmallIntegerField", "SmallIntegerField"} -> <<"NumberField", "short">>
      [] dj_type \in {"IntegerField", "PositiveIntegerField", "AutoField"} -> <<"NumberField", "integer">>
      [] dj_type = "BigIntegerField" -> <<"NumberField", "long">>
      [] OTHER -> <<"StringField", "string">>

\* C8 as stated: django_field_to_index returns a descriptor for every column
\* type (with the attributes _get_fields passes and no hotfix), of the class
\* and core type named; no column type ends in an error.
C8_EveryColumnTypeMapped ==
    (ctor.op = "django" /\ ~DictHas(ctor.args, "raw")) =>
        /\ ctor.exc = None
        /\ ctor.self.cls = ExpectedClass(ctor.dj)[1]
        /\ DictGet(ctor.self.dict, "type") = ExpectedClass(ctor.dj)[2]

\* C8 on the column types the if-chain names: these are mapped as stated
C8_NamedTypesMapped ==
    (ctor.op = "django" /\ ~DictHas(ctor.args, "raw")
     /\ ctor.dj \notin {"CharField", "TextField"}) =>
        /\ ctor.exc = None
        /\ ctor.self.cls = ExpectedClass(ctor.dj)[1]
        /\ DictGet(ctor.self.dict, "type") = ExpectedClass(ctor.dj)[2]

(***************************************************************************)
(* Properties of value resolution (checked under SpecCtor).                *)
(***************************************************************************)
Strategy(k) == DictGet(ctor.self.dict, k)

\* the strategies of the descriptor that are set (to a non-empty value)
StrategiesSet == {k \in {"model_attr", "eval_func", "template_name"} : Truthy(Strategy(k))}

\* the attribute or key the one strategy refers to
Referenced ==
    IF StrategiesSet = {"model_attr"} THEN {Strategy("model_attr")}
    ELSE IF StrategiesSet = {"eval_func"} THEN {"title"}
    ELSE {}

LookupInvoked(rec, m) ==
    IF m \notin DOMAIN rec.data
    THEN Raise(IF rec.kind = "dict" THEN "KeyError" ELSE "AttributeError")
    ELSE IF IsCallable(rec.data[m]) THEN Ok(CallResult(rec.data[m]))
    ELSE Ok(rec.data[m])

\* the lookup as the code makes it: a mapping's value is returned as it is
LookupAsCoded(rec, m) ==
    IF rec.kind = "dict" /\ m \in DOMAIN rec.data THEN Ok(rec.data[m])
    ELSE LookupInvoked(rec, m)

\* C3 as stated: template, else inline expression, else the lookup, invoked
\* when callable, for objects and mappings alike; else an error.
C3_FixedOrderInvoking ==
    ctor.stage = "resolved" =>
        ctor.res =
            (IF Truthy(Strategy("template_name"))
                THEN RenderTemplate(Strategy("template_name"), ctor.rec)
             ELSE IF Truthy(Strategy("eval_func"))
                THEN EvalExpr(Strategy("eval_func"), ctor.rec)
             ELSE IF Truthy(Strategy("model_attr"))
                THEN LookupInvoked(ctor.rec, Strategy("model_attr"))
             ELSE Raise("KeyError"))

\* C3 as amended: the same order, but only an object's attribute is invoked
\* when callable; a mapping's value is returned as it is, callable or not.
C3_FixedOrder ==
    ctor.stage = "resolved" =>
        ctor.res =
            (IF Truthy(Strategy("template_name"))
                THEN RenderTemplate(Strategy("template_name"), ctor.rec)
             ELSE IF Truthy(Strategy("eval_func"))
                THEN EvalExpr(Strategy("eval_func"), ctor.rec)
             ELSE IF Truthy(Strategy("model_attr"))
                THEN LookupAsCoded(ctor.rec, Strategy("model_attr"))
             ELSE Raise("KeyError"))

\* a descriptor with eval_as and model_attr both set, resolved by eval_as
C3_Witness ==
    /\ ctor.stage = "resolved"
    /\ StrategiesSet = {"eval_func", "model_attr"}
    /\ Strategy("eval_func") = "obj.title"
    /\ Strategy("model_attr") = "headline"
    /\ ctor.rec = RecObject
    /\ ctor.res = Ok("<b>T</b>")

(***************************************************************************)
(* Properties of the index descriptor in use (checked under Spec).         *)
(***************************************************************************)
\* the model-derived names of a declaration: the columns that are no
\* relation, filtered by Meta.fields and Meta.exclude
ModelDerivedNames(decl) ==
    {ModelColumns[i].name : i \in
        {j \in 1..Len(ModelColumns) :
            /\ (decl.fields = {} \/ ModelColumns[j].name \in decl.fields)
            /\ ModelColumns[j].name \notin decl.exclude
            /\ ~ModelColumns[j].rel}}

\* the names of the fields declared in the class body
ClassLevelNames(decl) == {decl.attrs[i][1] : i \in 1..Len(decl.attrs)}

DeclaredNames(decl) == ModelDerivedNames(decl) \cup ClassLevelNames(decl)

\* thread t has a result of `op` to hand back
Completed(t, op) ==
    /\ threads[t].op = op
    /\ threads[t].pc = "done"
    /\ threads[t].exc = None

MemoKeys == {"base_field", "base_field_class"}

\* a field descriptor without what the cached properties have stored
Configuration(self) ==
    [cls |-> self.cls, dict |-> SelectSeq(self.dict, LAMBDA p : p[1] \notin MemoKeys)]

C10_ConcurrentCallsAsSequential ==
    \A t \in DOMAIN threads :
        threads[t].pc = "done" =>
            /\ threads[t].exc = None
            /\ \A i \in 1..Len(threads[t].doc) :
                    threads[t].doc[i][2] =
                        IF threads[t].op \in {"value", "serialize_object"}
                        THEN value(FieldOf(threads[t].doc[i][1]), threads[t].obj).val
                        ELSE json(FieldOf(threads[t].doc[i][1]))

\* the iteration over self.__dict__ of one thread's first use finds the dict
\* grown by the other thread's first use
C10_RuntimeErrorReached ==
    \E t \in DOMAIN threads :
        threads[t].pc = "done" /\ threads[t].exc = "RuntimeError"

(***************************************************************************)
(* Properties of the search_index command (checked under SpecCmd).         *)
(***************************************************************************)
\* the calls of a run that delete an index or a mapping
DeletionCalls == {i \in 1..Len(cmd.calls) : cmd.calls[i][1] \in {"delete", "delete_mapping"}}

\* C11: a deletion call reaches the engine only for the actions delete and
\* delete-mapping with --guilty-as-charged; a delete action without the flag
\* and a run without action end in an error with no call made.
C11_DeletionOnlyWhenConfirmed ==
    cmd.stage = "done" =>
        /\ (DeletionCalls # {} =>
                (cmd.options.action \in {"delete", "delete-mapping"} /\ cmd.options.confirmed))
        /\ ((cmd.options.action \in {"delete", "delete-mapping"} /\ ~cmd.options.confirmed)
                => (cmd.exc = "ValueError" /\ cmd.calls = <<>>))
        /\ (cmd.options.action = None => (cmd.exc = "ValueError" /\ cmd.calls = <<>>))

\* a confirmed delete of every index of a project with two indices
C11_Witness ==
    /\ cmd.stage = "done"
    /\ cmd.options.action = "delete"
    /\ cmd.options.confirmed
    /\ cmd.options.index = None
    /\ cmd.calls = << <<"delete", "main">>, <<"delete", "a">> >>

\* the models an update run calls update_index for, in order
Updated == [i \in 1..Len(cmd.calls) |-> cmd.calls[i][2]]

\* the models defined on the indices an update run selects
ModelsSelected ==
    IF cmd.options.index # None
    THEN {DictGet(cmd.project, cmd.options.index)[k] :
                k \in 1..Len(DictGet(cmd.project, cmd.options.index))}
    ELSE UNION {{cmd.project[i][2][k] : k \in 1..Len(cmd.project[i][2])} :
                    i \in 1..Len(cmd.project)}

\* C12 as stated: update without --models updates every model of the
\* selected indices once (--index: the models of that index; else the models
\* of all indices); with --models exactly the models listed are updated.
C12_UpdateSelectsModels ==
    (/\ cmd.stage = "done"
     /\ cmd.options.action = "update"
     /\ (cmd.options.index # None => DictHas(cmd.project, cmd.options.index)))
    => /\ cmd.exc = None
       /\ \A i \in 1..Len(cmd.calls) : cmd.calls[i][1] = "update_index"
       /\ IF cmd.options.models # None
          THEN Updated = SplitComma(cmd.options.models)
          ELSE /\ {Updated[i] : i \in 1..Len(Updated)} = ModelsSelected
               /\ Len(Updated) = Cardinality(ModelsSelected)

\* what holds of the update action as coded: with --models exactly the
\* models listed are updated, each once, whatever --index says
C12_ListedModelsUpdated ==
    (cmd.stage = "done" /\ cmd.options.action = "update" /\ cmd.options.models # None)
    => /\ cmd.exc = None
       /\ cmd.calls = [i \in 1..Len(SplitComma(cmd.options.models)) |->
                            <<"update_index", SplitComma(cmd.options.models)[i]>>]

(***************************************************************************)
(* Properties of collect_analysis (checked under Spec).                    *)
(***************************************************************************)
\* the <<section, name, body>> entries of a definition
Triples(definition) ==
    UNION {{<<definition[i][1], definition[i][2][k][1], definition[i][2][k][2]>> :
                    k \in 1..Len(definition[i][2])} : i \in 1..Len(definition)}

\* the slots collect_analysis visits, in its order: <<field position, slot>>
Slots == (1..Len(index.fields)) \X (1..3)

Before(a, b) == a[1] < b[1] \/ (a[1] = b[1] /\ a[2] < b[2])

\* what the slot holds
SlotValue(a) ==
    DictGetOr(heap[index.fields[a[1]][2]].dict, AnalyzerNames[a[2]], None)

\* the entries the Analyzer object of a slot defines; a slot that is not set
\* or holds a plain string defines none
SlotTriples(a) ==
    IF IsAnalyzer(SlotValue(a)) THEN Triples(AnalysisDefinition(SlotValue(a))) ELSE {}

\* the keys of a dict are pairwise different
UniqueKeys(d) == Len(d) = Cardinality(DictKeys(d))

ColumnFields ==
    [i \in 1..Len(ModelColumns) |->
        django_field_to_index(
            ModelColumns[i].type,
            IF ModelColumns[i].default # None
            THEN << <<"model_attr", ModelColumns[i].name>>,
                    <<"null_value", ModelColumns[i].default>> >>
            ELSE << <<"model_attr", ModelColumns[i].name>> >>)]

\* the descriptor derived from the column of a name
ColumnField(name) ==
    ColumnFields[CHOOSE i \in 1..Len(ModelColumns) : ModelColumns[i].name = name]

\* the descriptor each candidate of the class body declares
ClassLevelFields ==
    [k \in 1..Len(AttrCandidates) |->
        AbstractField_init(AttrCandidates[k][2], AttrCandidates[k][3]).self]

\* the descriptor the class body of the index in use declares under a name
ClassLevelField(name) ==
    ClassLevelFields[CHOOSE k \in 1..Len(AttrCandidates) : AttrCandidates[k][1] = name]

ChildNames == [i \in 1..Len(nested.properties) |-> nested.properties[i][1]]

\* the composite the child fields make of `item`: every key with the value
\* of its field
IsCompositeOf(composite, item) ==
    /\ Len(composite) = Len(nested.properties)
    /\ \A i \in 1..Len(nested.properties) :
          /\ composite[i][1] = ChildNames[i]
          /\ value(nested.properties[i][2], item).exc = None
          /\ composite[i][2] = value(nested.properties[i][2], item).val

\* the calls of get_object_value that make the composite of `item`
CallsFor(item) == [i \in 1..Len(nested.properties) |-> <<ChildNames[i], item>>]

RECURSIVE CallsForAll(_)
CallsForAll(items) ==
    IF items = <<>> THEN <<>> ELSE CallsFor(Head(items)) \o CallsForAll(Tail(items))

C15_SingleReached ==
    /\ nested.stage = "done"
    /\ nested.res.exc = None
    /\ ~Nested_multi(nested.self)
    /\ nested.source.kind = "one"
    /\ Len(nested.res.val) = 2

====
